---- MODULE Spec2Model ----
(***************************************************************************)
(* Model of the attestation verification engine of `gh attestation         *)
(* verify`: LiveSigstoreVerifier.chooseVerifier and                        *)
(* LiveSigstoreVerifier.Verify (package verification).                     *)
(*                                                                         *)
(* Three specifications share the module.  Spec: one call of Verify on    *)
(* one batch under one configuration.  RunSpec: one run of runVerify, the  *)
(* command around Verify.  SwitchSpec: one run of switchRun, the           *)
(* `gh auth switch` command.  The loop index i is Go's 0-based index; the TLA+        *)
(* sequences are 1-based, so attestation i is attestations[i + 1].         *)
(* Error values are modelled by the text fmt.Errorf builds: a sequence of  *)
(* tokens, the format string's literal pieces and its arguments, in order. *)
(* The external collaborators (trust root construction and                 *)
(* SignedEntityVerifier.Verify) succeed or fail nondeterministically.      *)
(***************************************************************************)
EXTENDS Integers, Sequences, FiniteSets, TLC

VARIABLES config, attestations, pc, i, results, verifier, issuer, res, calls, failedAt

(* runVerify (package verify): its options, its position, its locals       *)
(* attestations and err, its return value, and the batches it has handed   *)
(* to SigstoreVerifier.Verify.                                             *)
VARIABLES opts, rpc, runAtts, rerr, ret, verified

runVars == <<opts, rpc, runAtts, rerr, ret, verified>>

(* switchRun (package authswitch): its options, the authentication         *)
(* configuration, the active user of each host, its position, its locals   *)
(* candidates, hostname and username, its return value, the SwitchUser     *)
(* calls made and the number of Prompter.Select calls.                     *)
VARIABLES swOpts, authCfg, activeUser, spc, candidates, hostname, username, sret, switched, prompts

switchVars == <<swOpts, authCfg, activeUser, spc, candidates, hostname, username, sret, switched, prompts>>

vars == <<config, attestations, pc, i, results, verifier, issuer, res, calls, failedAt, runVars, switchVars>>

(* Longest batch handed to Verify. *)
MaxLen == 3

PublicGoodIssuerOrg == "sigstore.dev"

GitHubIssuerOrg == "GitHub, Inc."

(* An issuer organization that is neither of the two recognized ones. *)
OtherIssuerOrg == "Acme Corp"

(* A nil error. *)
Nil == <<>>

(* No attestation has failed yet. *)
NoFail == -1

(* SigstoreConfig: CustomTrustedRoot is "" when the flag is not given. *)
Configs == [CustomTrustedRoot : {"", "trusted_root.json"}, NoPublicGood : BOOLEAN]

(* The shapes of bundle chooseVerifier tells apart: no verification        *)
(* content, no leaf certificate, and a leaf certificate whose issuer       *)
(* declares zero, one or two organizations.                                *)
Bundles ==
    { [hasContent |-> FALSE, hasCert |-> FALSE, orgs |-> <<>>],
      [hasContent |-> TRUE,  hasCert |-> FALSE, orgs |-> <<>>],
      [hasContent |-> TRUE,  hasCert |-> TRUE,  orgs |-> <<>>],
      [hasContent |-> TRUE,  hasCert |-> TRUE,  orgs |-> <<PublicGoodIssuerOrg>>],
      [hasContent |-> TRUE,  hasCert |-> TRUE,  orgs |-> <<GitHubIssuerOrg>>],
      [hasContent |-> TRUE,  hasCert |-> TRUE,  orgs |-> <<OtherIssuerOrg>>],
      [hasContent |-> TRUE,  hasCert |-> TRUE,  orgs |-> <<PublicGoodIssuerOrg, GitHubIssuerOrg>>] }

(* api.Attestation: the bundle plus the identity of the pointer (its       *)
(* position in the caller's slice).                                        *)
Batches ==
    UNION { { [k \in 1..n |-> [id |-> k - 1, Bundle |-> f[k]]] : f \in [1..n -> Bundles] } : n \in 0..MaxLen }

(* A nil *verify.VerificationResult. *)
NilResult == [subject |-> -1, verifiedBy |-> "nil"]

(* The result SignedEntityVerifier.Verify returns for a bundle: opaque to  *)
(* Verify, identified here by the attestation and the verifier used.       *)
VerificationResultFor(att, v) == [subject |-> att.id, verifiedBy |-> v]

(* An issuer resolution that only rejects an issuer without organization. *)
ResolveIssuerLenient(b) ==
    IF ~b.hasContent
      THEN [err |-> <<"failed to get bundle verification content: ", "<bundle error>">>, issuer |-> ""]
    ELSE IF ~b.hasCert
      THEN [err |-> <<"leaf cert not found">>, issuer |-> ""]
    ELSE IF Len(b.orgs) = 0
      THEN [err |-> <<"expected the leaf certificate issuer to only have one organization">>, issuer |-> ""]
    ELSE [err |-> Nil, issuer |-> b.orgs[1]]

(* The issuer resolution at the head of chooseVerifier. *)
ResolveIssuer(b) ==
    IF ~b.hasContent
      THEN [err |-> <<"failed to get bundle verification content: ", "<bundle error>">>, issuer |-> ""]
    ELSE IF ~b.hasCert
      THEN [err |-> <<"leaf cert not found">>, issuer |-> ""]
    ELSE IF Len(b.orgs) # 1
      THEN [err |-> <<"expected the leaf certificate issuer to only have one organization">>, issuer |-> ""]
    ELSE [err |-> Nil, issuer |-> b.orgs[1]]

(* A selection that looks at the issuer before the custom trusted root. *)
SelectDomainIssuerFirst(cfg, iss) ==
    IF iss = PublicGoodIssuerOrg /\ ~cfg.NoPublicGood THEN "PublicGood"
    ELSE IF iss = GitHubIssuerOrg \/ cfg.NoPublicGood THEN "GitHub"
    ELSE IF cfg.CustomTrustedRoot # "" THEN "Custom"
    ELSE "None"

(* A selection that forgets the NoPublicGood flag for sigstore.dev. *)
SelectDomainIgnoreFlag(cfg, iss) ==
    IF cfg.CustomTrustedRoot # "" THEN "Custom"
    ELSE IF iss = PublicGoodIssuerOrg THEN "PublicGood"
    ELSE IF iss = GitHubIssuerOrg \/ cfg.NoPublicGood THEN "GitHub"
    ELSE "None"

(* A selection that falls back to GitHub for every other issuer. *)
SelectDomainDefaultGitHub(cfg, iss) ==
    IF cfg.CustomTrustedRoot # "" THEN "Custom"
    ELSE IF iss = PublicGoodIssuerOrg /\ ~cfg.NoPublicGood THEN "PublicGood"
    ELSE "GitHub"

(* A selection that sends only GitHub, Inc. to the GitHub trust domain. *)
SelectDomainStrict(cfg, iss) ==
    IF cfg.CustomTrustedRoot # "" THEN "Custom"
    ELSE IF iss = PublicGoodIssuerOrg /\ ~cfg.NoPublicGood THEN "PublicGood"
    ELSE IF iss = GitHubIssuerOrg THEN "GitHub"
    ELSE "None"

(* The branch of chooseVerifier taken for a resolved issuer: the trust     *)
(* domain whose verifier is constructed, "None" for the final return.      *)
SelectDomain(cfg, iss) ==
    IF cfg.CustomTrustedRoot # "" THEN "Custom"
    ELSE IF iss = PublicGoodIssuerOrg /\ ~cfg.NoPublicGood THEN "PublicGood"
    ELSE IF iss = GitHubIssuerOrg \/ cfg.NoPublicGood THEN "GitHub"
    ELSE "None"

(* The constructor chooseVerifier calls for a trust domain. *)
Constructor(d) ==
    CASE d = "Custom" -> "newCustomVerifier"
      [] d = "PublicGood" -> "newPublicGoodVerifier"
      [] d = "GitHub" -> "newGitHubVerifier"

Constructors == {"newCustomVerifier", "newPublicGoodVerifier", "newGitHubVerifier"}

(* The error a failing constructor returns (its first failure point). *)
ConstructorError(cfg, d) ==
    CASE d = "Custom" -> <<"failed to create trusted root from file ", cfg.CustomTrustedRoot, ": ", "<root error>">>
      [] d = "PublicGood" -> <<"failed to create TUF client: ", "<tuf error>">>
      [] d = "GitHub" -> <<"failed to create TUF client: ", "<tuf error>">>

(* chooseVerifier's wrapping of a constructor error. *)
CreateVerifierError(d, err) ==
    CASE d = "Custom" -> <<"failed to create custom verifier: ">> \o err
      [] d = "PublicGood" -> <<"failed to create Public Good Sigstore verifier: ">> \o err
      [] d = "GitHub" -> <<"failed to create GitHub Sigstore verifier: ">> \o err

(* chooseVerifier(b) when the constructor it calls, if any, succeeds (ok)  *)
(* or fails: the verifier, the issuer and the error returned, and the      *)
(* constructor called.                                                     *)
chooseVerifier(cfg, b, ok) ==
    LET r == ResolveIssuer(b)
        d == SelectDomain(cfg, r.issuer)
    IN  IF r.err # Nil
          THEN [verifier |-> "None", issuer |-> "", err |-> r.err, made |-> <<>>]
        ELSE IF d = "None"
          THEN [verifier |-> "None", issuer |-> "",
                err |-> <<"leaf certificate issuer is not recognized">>, made |-> <<>>]
        ELSE IF ~ok
          THEN [verifier |-> "None", issuer |-> "",
                err |-> CreateVerifierError(d, ConstructorError(cfg, d)), made |-> <<Constructor(d)>>]
        ELSE [verifier |-> d, issuer |-> r.issuer, err |-> Nil, made |-> <<Constructor(d)>>]

(* Result slots filled from the end of the batch. *)
InitResultsReversed(atts) ==
    [k \in 1..Len(atts) |-> [Attestation |-> atts[Len(atts) + 1 - k], VerificationResult |-> NilResult]]

(* The result slots Verify allocates before the loop. *)
InitResults(atts) ==
    [k \in 1..Len(atts) |-> [Attestation |-> atts[k], VerificationResult |-> NilResult]]

(* A loop that logs the failure and goes on to the next step. *)
AbortsOnNever(err) == FALSE

(* The `if err != nil` tests of Verify's loop. *)
AbortsOn(err) == err # Nil

(* The error Verify returns when chooseVerifier fails. *)
SelectionError(err) ==
    <<"failed to find recognized issuer from bundle content: ">> \o err

(* A verification error that leaves the issuer out. *)
VerifyErrorNoIssuer(iss, err) ==
    <<"verification failed: ">> \o err

(* The error Verify returns when the verifier rejects the bundle. *)
VerifyError(iss, err) ==
    <<"verifying with issuer \"", iss, "\": ">> \o err

(* An aborted batch that hands back the attestations verified so far. *)
FailureResultsPartial(rs, err) ==
    [VerifyResults |-> SelectSeq(rs, LAMBDA r : r.VerificationResult # NilResult), Error |-> err]

(* The SigstoreResults of an aborted batch. *)
FailureResults(rs, err) == [VerifyResults |-> <<>>, Error |-> err]

(* The SigstoreResults of a batch that ran to the end. *)
SuccessResults(rs) == [VerifyResults |-> rs, Error |-> Nil]

(* A loop that steps over every other attestation. *)
NextIndexSkip(k) == k + 2

(* The step of `for i, apr := range results`. *)
NextIndex(k) == k + 1

(* switchRun is not running. *)
SwitchIdle ==
    /\ swOpts = [Hostname |-> "", Username |-> "", CanPrompt |-> FALSE,
                 SwitchGitLocalConfig |-> FALSE, SwitchGitGlobalConfig |-> FALSE]
    /\ authCfg = <<>>
    /\ activeUser = <<>>
    /\ spc = "off"
    /\ candidates = <<>>
    /\ hostname = ""
    /\ username = ""
    /\ sret = Nil
    /\ switched = <<>>
    /\ prompts = 0

(* runVerify is not running: Verify is called on its own. *)
RunIdle ==
    /\ opts = [PredicateType |-> "", exporter |-> FALSE]
    /\ rpc = "off"
    /\ runAtts = <<>>
    /\ rerr = Nil
    /\ ret = Nil
    /\ verified = <<>>

Init ==
    /\ config \in Configs
    /\ attestations \in Batches
    /\ pc = "start"
    /\ i = 0
    /\ results = <<>>
    /\ verifier = "None"
    /\ issuer = ""
    /\ res = [VerifyResults |-> <<>>, Error |-> Nil]
    /\ calls = <<>>
    /\ failedAt = NoFail
    /\ RunIdle
    /\ SwitchIdle

(* Verify is entered: one result slot per attestation. *)
InitializeResults ==
    /\ pc = "start"
    /\ results' = InitResults(attestations)
    /\ i' = 0
    /\ pc' = "loop"
    /\ UNCHANGED <<config, attestations, verifier, issuer, res, calls, failedAt>>
    /\ UNCHANGED <<runVars, switchVars>>

(* One iteration's call of chooseVerifier and the test of its error. *)
ChooseVerifier ==
    /\ pc = "loop"
    /\ i < Len(results)
    /\ \E ok \in BOOLEAN :
         LET out == chooseVerifier(config, results[i + 1].Attestation.Bundle, ok)
         IN  /\ calls' = calls \o <<[op |-> "chooseVerifier", idx |-> i]>>
                               \o [k \in 1..Len(out.made) |-> [op |-> out.made[k], idx |-> i]]
             /\ failedAt' = IF out.err # Nil /\ failedAt = NoFail THEN i ELSE failedAt
             /\ IF AbortsOn(out.err)
                  THEN /\ res' = FailureResults(results, SelectionError(out.err))
                       /\ pc' = "done"
                       /\ UNCHANGED <<verifier, issuer>>
                  ELSE /\ verifier' = out.verifier
                       /\ issuer' = out.issuer
                       /\ pc' = "verify"
                       /\ UNCHANGED res
    /\ UNCHANGED <<config, attestations, i, results>>
    /\ UNCHANGED <<runVars, switchVars>>

(* The same iteration's call of verifier.Verify and the test of its error. *)
SignedEntityVerify ==
    /\ pc = "verify"
    /\ \E ok \in BOOLEAN :
         LET att == results[i + 1].Attestation
             result == IF ok THEN VerificationResultFor(att, verifier) ELSE NilResult
             err == IF ok THEN Nil ELSE <<"<verification error>">>
         IN  /\ calls' = calls \o <<[op |-> "Verify", idx |-> i]>>
             /\ failedAt' = IF err # Nil /\ failedAt = NoFail THEN i ELSE failedAt
             /\ IF AbortsOn(err)
                  THEN /\ res' = FailureResults(results, VerifyError(issuer, err))
                       /\ pc' = "done"
                       /\ UNCHANGED <<i, results>>
                  ELSE /\ results' = [results EXCEPT ![i + 1].VerificationResult = result]
                       /\ i' = NextIndex(i)
                       /\ pc' = "loop"
                       /\ UNCHANGED res
    /\ UNCHANGED <<config, attestations, verifier, issuer>>
    /\ UNCHANGED <<runVars, switchVars>>

(* The loop is over: Verify returns the results. *)
ReturnResults ==
    /\ pc = "loop"
    /\ i >= Len(results)
    /\ res' = SuccessResults(results)
    /\ pc' = "done"
    /\ UNCHANGED <<config, attestations, i, results, verifier, issuer, calls, failedAt>>
    /\ UNCHANGED <<runVars, switchVars>>

Next ==
    \/ InitializeResults
    \/ ChooseVerifier
    \/ SignedEntityVerify
    \/ ReturnResults

Spec == Init /\ [][Next]_vars

(***************************************************************************)
(* runVerify: the command around Verify.  Each call of a collaborator is   *)
(* one step; the collaborators outside this file (NewDigestedArtifact,     *)
(* GetAttestations, FilterAttestations, buildVerifyPolicy, the exporter    *)
(* and the table printer) succeed or fail nondeterministically.            *)
(***************************************************************************)

(* Longest list GetAttestations returns. *)
MaxFetched == 2

(* The options runVerify reads: the predicate type filter ("" when not     *)
(* given) and whether an exporter is set.                                  *)
Options == [PredicateType : {"", "https://slsa.dev/provenance/v1"}, exporter : BOOLEAN]

(* The lists GetAttestations returns with a nil error. *)
FetchedBatches ==
    UNION { { [k \in 1..n |-> [id |-> k - 1, Bundle |-> f[k]]] : f \in [1..n -> Bundles] } : n \in 1..MaxFetched }

(* api.ErrNoAttestations{} *)
ErrNoAttestations == <<"no attestations found">>

(* The attestations FilterAttestations keeps, given their positions. *)
Filtered(as, keep) == SelectSeq(as, LAMBDA a : (a.id + 1) \in keep)

(* The value of `return err` after the predicate type filter has removed   *)
(* every attestation: err is the variable GetAttestations assigned.        *)
EmptyFilterReturn(err) == err

RunInit ==
    /\ config \in Configs
    /\ attestations = <<>>
    /\ pc = "idle"
    /\ i = 0
    /\ results = <<>>
    /\ verifier = "None"
    /\ issuer = ""
    /\ res = [VerifyResults |-> <<>>, Error |-> Nil]
    /\ calls = <<>>
    /\ failedAt = NoFail
    /\ opts \in Options
    /\ rpc = "start"
    /\ runAtts = <<>>
    /\ rerr = Nil
    /\ ret = Nil
    /\ verified = <<>>
    /\ SwitchIdle

verifyVars == <<config, attestations, pc, i, results, verifier, issuer, res, calls, failedAt>>

(* artifact.NewDigestedArtifact and the test of its error. *)
NewDigestedArtifact ==
    /\ rpc = "start"
    /\ \E ok \in BOOLEAN :
         IF ok
           THEN /\ rerr' = Nil
                /\ rpc' = "fetch"
                /\ UNCHANGED ret
           ELSE /\ rerr' = <<"<digest error>">>
                /\ ret' = <<"<digest error>">>
                /\ rpc' = "returned"
    /\ UNCHANGED <<verifyVars, opts, runAtts, verified>>
    /\ UNCHANGED switchVars

(* verification.GetAttestations and the test of its error. *)
GetAttestations ==
    /\ rpc = "fetch"
    /\ \/ \E b \in FetchedBatches :
            /\ runAtts' = b
            /\ rerr' = Nil
            /\ rpc' = "filter"
            /\ UNCHANGED ret
       \/ \E e \in {ErrNoAttestations, <<"<fetch error>">>} :
            /\ rerr' = e
            /\ ret' = e
            /\ rpc' = "returned"
            /\ UNCHANGED runAtts
    /\ UNCHANGED <<verifyVars, opts, verified>>
    /\ UNCHANGED switchVars

(* The predicate type filter. *)
FilterAttestations ==
    /\ rpc = "filter"
    /\ IF opts.PredicateType = ""
         THEN /\ rpc' = "policy"
              /\ UNCHANGED <<runAtts, ret>>
         ELSE \E keep \in SUBSET (1..Len(runAtts)) :
                LET filteredAttestations == Filtered(runAtts, keep)
                IN  IF Len(filteredAttestations) = 0
                      THEN /\ ret' = EmptyFilterReturn(rerr)
                           /\ rpc' = "returned"
                           /\ UNCHANGED runAtts
                      ELSE /\ runAtts' = filteredAttestations
                           /\ rpc' = "policy"
                           /\ UNCHANGED ret
    /\ UNCHANGED <<verifyVars, opts, rerr, verified>>
    /\ UNCHANGED switchVars

(* buildVerifyPolicy, the test of its error, and the call of               *)
(* opts.SigstoreVerifier.Verify(attestations, policy).                     *)
BuildVerifyPolicy ==
    /\ rpc = "policy"
    /\ \E ok \in BOOLEAN :
         IF ok
           THEN /\ rerr' = Nil
                /\ attestations' = runAtts
                /\ pc' = "start"
                /\ verified' = Append(verified, runAtts)
                /\ rpc' = "verify"
                /\ UNCHANGED ret
           ELSE /\ rerr' = <<"<policy error>">>
                /\ ret' = <<"<policy error>">>
                /\ rpc' = "returned"
                /\ UNCHANGED <<attestations, pc, verified>>
    /\ UNCHANGED <<config, i, results, verifier, issuer, res, calls, failedAt, opts, runAtts>>
    /\ UNCHANGED switchVars

(* Verify has returned: the test of sigstoreRes.Error. *)
VerifyReturned ==
    /\ rpc = "verify"
    /\ pc = "done"
    /\ IF res.Error # Nil
         THEN /\ ret' = res.Error
              /\ rpc' = "returned"
         ELSE /\ rpc' = "output"
              /\ UNCHANGED ret
    /\ UNCHANGED <<verifyVars, opts, runAtts, rerr, verified>>
    /\ UNCHANGED switchVars

(* The results are written, as JSON by the exporter or as a table. *)
WriteResults ==
    /\ rpc = "output"
    /\ \E e \in IF opts.exporter
                  THEN {Nil, <<"<write error>">>}
                  ELSE {Nil, <<"no match found for org and repo">>,
                        <<"no match found for workflow">>, <<"<print error>">>} :
         /\ rerr' = e
         /\ ret' = e
    /\ rpc' = "returned"
    /\ UNCHANGED <<verifyVars, opts, runAtts, verified>>
    /\ UNCHANGED switchVars

RunNext ==
    \/ NewDigestedArtifact
    \/ GetAttestations
    \/ FilterAttestations
    \/ BuildVerifyPolicy
    \/ InitializeResults
    \/ ChooseVerifier
    \/ SignedEntityVerify
    \/ ReturnResults
    \/ VerifyReturned
    \/ WriteResults

RunSpec == RunInit /\ [][RunNext]_vars

(***************************************************************************)
(* switchRun: `gh auth switch`.  The configuration is a list of hosts,     *)
(* each with its users and its active user, which is one of them.  The     *)
(* collaborators (Config, ActiveUser, Prompter.Select, AuthTokenWriteable, *)
(* SwitchUser, the git configurator) succeed or fail nondeterministically. *)
(***************************************************************************)

(* Most accounts logged in to one host. *)
MaxUsers == 3

UserPool == <<"monalisa", "hubot", "octocat", "defunkt", "mojombo">>

GitHubHost == "github.com"

EnterpriseHost == "enterprise.internal"

(* The user lists a host can have: the non-empty selections of the first   *)
(* MaxUsers names, in the order of UserPool.                               *)
UserLists ==
    LET n == IF MaxUsers < Len(UserPool) THEN MaxUsers ELSE Len(UserPool)
    IN  { SelectSeq(SubSeq(UserPool, 1, n), LAMBDA u : u \in S) :
            S \in (SUBSET { UserPool[k] : k \in 1..n }) \ {{}} }

(* The configurations of one host: its users and which of them is active. *)
HostEntries(h) ==
    UNION { { [host |-> h, users |-> us, active |-> us[a]] : a \in 1..Len(us) } : us \in UserLists }

(* The authentication configurations: no host, one host, two hosts. *)
AuthConfigs ==
    {<<>>} \cup { <<e>> : e \in HostEntries(GitHubHost) }
           \cup { <<e1, e2>> : e1 \in HostEntries(GitHubHost), e2 \in HostEntries(EnterpriseHost) }

(* SwitchOptions: the flags and whether the terminal can prompt. *)
SwitchOptionsSet ==
    [Hostname : {"", GitHubHost, EnterpriseHost},
     Username : {"", UserPool[1], "nobody"},
     CanPrompt : BOOLEAN,
     SwitchGitLocalConfig : BOOLEAN,
     SwitchGitGlobalConfig : BOOLEAN]

(* slices.Contains *)
Contains(sq, x) == \E k \in 1..Len(sq) : sq[k] = x

(* authCfg.Hosts() *)
KnownHosts(cfg) == [k \in 1..Len(cfg) |-> cfg[k].host]

(* cfg.Authentication().UsersForHost(host) *)
UsersForHost(cfg, h) ==
    IF \E k \in 1..Len(cfg) : cfg[k].host = h
      THEN (CHOOSE e \in { cfg[k] : k \in 1..Len(cfg) } : e.host = h).users
      ELSE <<>>

(* The checks of the flags against the configuration: the error returned,  *)
(* Nil when they pass.                                                     *)
ValidationError(cfg, hn, un) ==
    IF Len(KnownHosts(cfg)) = 0
      THEN <<"not logged in to any hosts">>
    ELSE IF hn # "" /\ ~Contains(KnownHosts(cfg), hn)
      THEN <<"not logged in to ", hn>>
    ELSE IF hn # "" /\ un # "" /\ ~Contains(UsersForHost(cfg, hn), un)
      THEN <<"not logged in to ", hn, " account ", un>>
    ELSE Nil

(* The candidates one host contributes: its users, filtered by --user. *)
HostCandidates(e, un) ==
    SelectSeq([k \in 1..Len(e.users) |->
                  [host |-> e.host, user |-> e.users[k], active |-> e.users[k] = e.active]],
              LAMBDA c : un = "" \/ c.user = un)

RECURSIVE CandidatesFrom(_, _, _, _)
(* The candidates loop from host k on: hosts filtered by --hostname. *)
CandidatesFrom(cfg, hn, un, k) ==
    IF k > Len(cfg) THEN <<>>
    ELSE (IF hn # "" /\ cfg[k].host # hn THEN <<>> ELSE HostCandidates(cfg[k], un))
             \o CandidatesFrom(cfg, hn, un, k + 1)

(* An automatic switch that always takes the first candidate. *)
AutoSwitchUserFirst(cs) == cs[1].user

(* The user chosen when one host has two candidates: the inactive one. *)
AutoSwitchUser(cs) == IF cs[1].active THEN cs[2].user ELSE cs[1].user

(* cmdutil.SilentError *)
SilentError == <<"SilentError">>

SwitchInit ==
    /\ config = [CustomTrustedRoot |-> "", NoPublicGood |-> FALSE]
    /\ attestations = <<>>
    /\ pc = "idle"
    /\ i = 0
    /\ results = <<>>
    /\ verifier = "None"
    /\ issuer = ""
    /\ res = [VerifyResults |-> <<>>, Error |-> Nil]
    /\ calls = <<>>
    /\ failedAt = NoFail
    /\ RunIdle
    /\ swOpts \in SwitchOptionsSet
    /\ authCfg \in AuthConfigs
    /\ activeUser = [k \in 1..Len(authCfg) |-> authCfg[k].active]
    /\ spc = "start"
    /\ candidates = <<>>
    /\ hostname = swOpts.Hostname
    /\ username = swOpts.Username
    /\ sret = Nil
    /\ switched = <<>>
    /\ prompts = 0

(* From the entry of switchRun to the choice among the candidates: the     *)
(* account is chosen, the prompt is needed, or switchRun returns an error. *)
ChooseCandidate ==
    /\ spc = "start"
    /\ \E cfgOK \in BOOLEAN, activeOK \in BOOLEAN :
         LET verr == ValidationError(authCfg, hostname, username)
             cs == CandidatesFrom(authCfg, hostname, username, 1)
         IN  IF ~cfgOK
               THEN /\ sret' = <<"<config error>">>
                    /\ spc' = "returned"
                    /\ UNCHANGED <<candidates, hostname, username>>
             ELSE IF verr # Nil
               THEN /\ sret' = verr
                    /\ spc' = "returned"
                    /\ UNCHANGED <<candidates, hostname, username>>
             ELSE IF ~activeOK
               THEN /\ sret' = <<"<active user error>">>
                    /\ spc' = "returned"
                    /\ UNCHANGED <<candidates, hostname, username>>
             ELSE /\ candidates' = cs
                  /\ IF Len(cs) = 0
                       THEN /\ sret' = <<"no accounts matched that criteria">>
                            /\ spc' = "returned"
                            /\ UNCHANGED <<hostname, username>>
                     ELSE IF Len(cs) = 1
                       THEN /\ hostname' = cs[1].host
                            /\ username' = cs[1].user
                            /\ spc' = "writeable"
                            /\ UNCHANGED sret
                     ELSE IF Len(cs) = 2 /\ cs[1].host = cs[2].host
                       THEN /\ hostname' = cs[1].host
                            /\ username' = AutoSwitchUser(cs)
                            /\ spc' = "writeable"
                            /\ UNCHANGED sret
                     ELSE IF ~swOpts.CanPrompt
                       THEN /\ sret' = <<"unable to determine which account to switch to, please specify --hostname and --user">>
                            /\ spc' = "returned"
                            /\ UNCHANGED <<hostname, username>>
                     ELSE /\ spc' = "prompt"
                          /\ UNCHANGED <<hostname, username, sret>>
    /\ UNCHANGED <<verifyVars, runVars, swOpts, authCfg, activeUser, switched, prompts>>

(* opts.Prompter.Select over the candidates. *)
PromptSelect ==
    /\ spc = "prompt"
    /\ prompts' = prompts + 1
    /\ \/ \E selected \in 1..Len(candidates) :
            /\ hostname' = candidates[selected].host
            /\ username' = candidates[selected].user
            /\ spc' = "writeable"
            /\ UNCHANGED sret
       \/ /\ sret' = <<"could not prompt: ", "<prompt error>">>
          /\ spc' = "returned"
          /\ UNCHANGED <<hostname, username>>
    /\ UNCHANGED <<verifyVars, runVars, swOpts, authCfg, activeUser, candidates, switched>>

(* shared.AuthTokenWriteable: a token from the environment cannot be       *)
(* switched.                                                               *)
AuthTokenWriteable ==
    /\ spc = "writeable"
    /\ \E writeable \in BOOLEAN :
         IF writeable
           THEN /\ spc' = "switch"
                /\ UNCHANGED sret
           ELSE /\ sret' = SilentError
                /\ spc' = "returned"
    /\ UNCHANGED <<verifyVars, runVars, swOpts, authCfg, activeUser, candidates, hostname, username, switched, prompts>>

(* authCfg.SwitchUser(hostname, username) and the test of its error. *)
SwitchUser ==
    /\ spc = "switch"
    /\ switched' = Append(switched, [host |-> hostname, user |-> username])
    /\ \E ok \in BOOLEAN :
         IF ok
           THEN /\ activeUser' = [k \in 1..Len(authCfg) |->
                                    IF authCfg[k].host = hostname THEN username ELSE activeUser[k]]
                /\ spc' = "git"
                /\ UNCHANGED sret
           ELSE /\ sret' = <<"<switch error>">>
                /\ spc' = "returned"
                /\ UNCHANGED activeUser
    /\ UNCHANGED <<verifyVars, runVars, swOpts, authCfg, candidates, hostname, username, prompts>>

(* The switch of the local or global git configuration, and the return. *)
GitConfigure ==
    /\ spc = "git"
    /\ \E e \in IF swOpts.SwitchGitLocalConfig \/ swOpts.SwitchGitGlobalConfig
                  THEN {Nil, <<"<login error>">>, <<"<git config error>">>}
                  ELSE {Nil} :
         sret' = e
    /\ spc' = "returned"
    /\ UNCHANGED <<verifyVars, runVars, swOpts, authCfg, activeUser, candidates, hostname, username, switched, prompts>>

SwitchNext ==
    \/ ChooseCandidate
    \/ PromptSelect
    \/ AuthTokenWriteable
    \/ SwitchUser
    \/ GitConfigure

SwitchSpec == SwitchInit /\ [][SwitchNext]_vars

TypeOK ==
    /\ config \in Configs
    /\ pc \in {"idle", "start", "loop", "verify", "done"}
    /\ i \in 0..(MaxLen + 1)
    /\ verifier \in {"None", "Custom", "PublicGood", "GitHub"}
    /\ failedAt \in -1..MaxLen

(***************************************************************************)
(* Vocabulary of the properties.                                           *)
(***************************************************************************)

(* The tokens of an error's text. *)
Tokens(e) == { e[k] : k \in 1..Len(e) }

(* The issuer organization of attestation k (0-based), "" if unresolved. *)
IssuerOf(k) ==
    LET b == attestations[k + 1].Bundle
    IN  IF b.hasContent /\ b.hasCert /\ Len(b.orgs) = 1 THEN b.orgs[1] ELSE ""

(* Attestation k (0-based) has a single-organization issuer. *)
Resolved(k) == IssuerOf(k) # ""

(* The calls made for attestation k (0-based), in order. *)
CallsFor(k) == SelectSeq(calls, LAMBDA c : c.idx = k)

(* The operations called for attestation k (0-based). *)
OpsFor(k) == { calls[j].op : j \in { m \in 1..Len(calls) : calls[m].idx = k } }

(* The calls of the Signature Verification Capability, in order. *)
VerifyCalls == SelectSeq(calls, LAMBDA c : c.op = "Verify")

(* The step that failed: "Verify", a constructor, or "chooseVerifier" when *)
(* chooseVerifier failed before constructing anything.                     *)
FailedOp == IF failedAt = NoFail THEN "none" ELSE calls[Len(calls)].op

Returned == pc = "done"

(***************************************************************************)
(* C1: when verifier selection or cryptographic verification fails for     *)
(* some attestation of the batch, or the batch holds an attestation whose  *)
(* issuer cannot be resolved, Verify returns a non-nil Error and no        *)
(* VerifyResults: never the attestations that passed before the failure.   *)
(***************************************************************************)
C1_NoPartialResults ==
    (Returned /\ (failedAt # NoFail \/ \E k \in 0..(Len(attestations) - 1) : ~Resolved(k)))
        => (res.Error # Nil /\ res.VerifyResults = <<>>)

(* Two attestations passed and the third failed. *)
C1_Witness ==
    /\ Returned
    /\ failedAt = 2
    /\ results[1].VerificationResult # NilResult
    /\ results[2].VerificationResult # NilResult
    /\ res.Error # Nil

(***************************************************************************)
(* C2: fail-fast: once selection or verification has failed for            *)
(* attestation k, no chooseVerifier, constructor or Verify call is ever    *)
(* made for an attestation after k, and Verify has returned.               *)
(***************************************************************************)
C2_FailFast ==
    failedAt # NoFail =>
        /\ \A j \in 1..Len(calls) : calls[j].idx <= failedAt
        /\ Returned

(* Batch of 3 whose 2nd attestation fails cryptographic verification. *)
C2_Witness ==
    /\ Returned
    /\ Len(attestations) = 3
    /\ failedAt = 1
    /\ FailedOp = "Verify"
    /\ OpsFor(2) = {}

(***************************************************************************)
(* C3 as stated: if every attestation's issuer resolves to a recognized,   *)
(* enabled trust domain and no cryptographic check fails, Verify returns   *)
(* one result per attestation, in input order.                             *)
(***************************************************************************)
Recognized(k) ==
    /\ Resolved(k)
    /\ \/ config.CustomTrustedRoot # ""
       \/ config.NoPublicGood
       \/ IssuerOf(k) \in {PublicGoodIssuerOrg, GitHubIssuerOrg}

InInputOrder ==
    /\ res.Error = Nil
    /\ Len(res.VerifyResults) = Len(attestations)
    /\ \A k \in 1..Len(attestations) :
         /\ res.VerifyResults[k].Attestation = attestations[k]
         /\ res.VerifyResults[k].VerificationResult.subject = attestations[k].id
         /\ Constructor(res.VerifyResults[k].VerificationResult.verifiedBy) \in OpsFor(k - 1)

C3_Original ==
    (Returned /\ (\A k \in 0..(Len(attestations) - 1) : Recognized(k)) /\ FailedOp # "Verify")
        => InInputOrder

(***************************************************************************)
(* C3 amended: if every attestation's issuer resolves to a recognized,     *)
(* enabled trust domain, the verifier of every selected domain is          *)
(* constructed, and every cryptographic check succeeds, Verify returns a   *)
(* sequence as long as the input whose k-th entry pairs the k-th input     *)
(* attestation with the VerificationResult returned for it.                *)
(***************************************************************************)
C3_Amended ==
    (Returned /\ (\A k \in 0..(Len(attestations) - 1) : Recognized(k)) /\ failedAt = NoFail)
        => InInputOrder

(* A batch of three distinct bundles that all verified. *)
C3_Witness ==
    /\ Returned
    /\ failedAt = NoFail
    /\ Len(attestations) = 3
    /\ attestations[1].Bundle # attestations[3].Bundle
    /\ Len(res.VerifyResults) = 3

(***************************************************************************)
(* C4: for every batch, the empty one included, the returned               *)
(* SigstoreResults is either a non-empty result sequence with no error or  *)
(* an error with no results: never both, never neither.                    *)
(***************************************************************************)
C4_ExactlyOne ==
    Returned =>
        \/ (res.VerifyResults # <<>> /\ res.Error = Nil)
        \/ (res.VerifyResults = <<>> /\ res.Error # Nil)

(* Call j of the log is followed by a call of op for the same attestation. *)
NextCallIs(j, op) ==
    /\ j < Len(calls)
    /\ calls[j + 1] = [op |-> op, idx |-> calls[j].idx]

(* The chooseVerifier calls made for an attestation with a resolved issuer. *)
ResolvedChoices ==
    { j \in 1..Len(calls) : calls[j].op = "chooseVerifier" /\ Resolved(calls[j].idx) }

(* The number of calls of an operation in the run. *)
TimesCalled(op) == Cardinality({ j \in 1..Len(calls) : calls[j].op = op })

UnrecognizedText == "leaf certificate issuer is not recognized"

(***************************************************************************)
(* C5: whenever CustomTrustedRoot is non-empty, chooseVerifier constructs  *)
(* the custom verifier for every resolved issuer, sigstore.dev and         *)
(* GitHub, Inc. included, whatever NoPublicGood is, and neither the Public *)
(* Good nor the GitHub verifier is constructed in the run.                 *)
(***************************************************************************)
C5_CustomPrecedence ==
    config.CustomTrustedRoot # "" =>
        /\ \A j \in ResolvedChoices : NextCallIs(j, "newCustomVerifier")
        /\ TimesCalled("newPublicGoodVerifier") = 0
        /\ TimesCalled("newGitHubVerifier") = 0
        /\ pc = "verify" => verifier = "Custom"

(* A custom root with both recognized issuers in the batch. *)
C5_Witness ==
    /\ Returned
    /\ config.CustomTrustedRoot # ""
    /\ Len(attestations) = 3
    /\ IssuerOf(0) = PublicGoodIssuerOrg
    /\ IssuerOf(1) = GitHubIssuerOrg
    /\ IssuerOf(2) = OtherIssuerOrg
    /\ \A k \in 0..2 : "newCustomVerifier" \in OpsFor(k)

(***************************************************************************)
(* C6: with no custom trusted root and NoPublicGood set, a bundle issued   *)
(* by sigstore.dev is verified with the GitHub verifier and the Public     *)
(* Good verifier is never constructed; if the GitHub verifier rejects such *)
(* a bundle the batch error names the issuer sigstore.dev.  Under any      *)
(* configuration the unrecognized-issuer error is returned only for an     *)
(* issuer that is neither sigstore.dev nor GitHub, Inc.                    *)
(***************************************************************************)
C6_NoPublicGood ==
    /\ (config.CustomTrustedRoot = "" /\ config.NoPublicGood) =>
          /\ \A j \in ResolvedChoices :
                IssuerOf(calls[j].idx) = PublicGoodIssuerOrg => NextCallIs(j, "newGitHubVerifier")
          /\ TimesCalled("newPublicGoodVerifier") = 0
          /\ (pc = "verify" /\ IssuerOf(i) = PublicGoodIssuerOrg) => verifier = "GitHub"
          /\ (Returned /\ FailedOp = "Verify" /\ IssuerOf(failedAt) = PublicGoodIssuerOrg)
                => PublicGoodIssuerOrg \in Tokens(res.Error)
    /\ UnrecognizedText \in Tokens(res.Error)
          => (Resolved(failedAt) /\ IssuerOf(failedAt) \notin {PublicGoodIssuerOrg, GitHubIssuerOrg})

(* The GitHub verifier rejected a sigstore.dev bundle. *)
C6_Witness ==
    /\ Returned
    /\ config.CustomTrustedRoot = ""
    /\ config.NoPublicGood
    /\ failedAt = 1
    /\ IssuerOf(1) = PublicGoodIssuerOrg
    /\ OpsFor(1) = {"chooseVerifier", "newGitHubVerifier", "Verify"}
    /\ PublicGoodIssuerOrg \in Tokens(res.Error)

(***************************************************************************)
(* C7: with no custom trusted root and NoPublicGood unset, chooseVerifier  *)
(* constructs the Public Good verifier exactly for issuer sigstore.dev and *)
(* the GitHub verifier exactly for issuer GitHub, Inc.; for every other    *)
(* single-organization issuer it fails with the unrecognized-issuer error, *)
(* no verifier is constructed and no verification is attempted for that    *)
(* attestation.                                                            *)
(***************************************************************************)
C7_DefaultSelection ==
    (config.CustomTrustedRoot = "" /\ ~config.NoPublicGood) =>
        \A j \in ResolvedChoices :
            LET k == calls[j].idx
            IN  /\ NextCallIs(j, "newPublicGoodVerifier") <=> IssuerOf(k) = PublicGoodIssuerOrg
                /\ NextCallIs(j, "newGitHubVerifier") <=> IssuerOf(k) = GitHubIssuerOrg
                /\ ~NextCallIs(j, "newCustomVerifier")
                /\ IssuerOf(k) \notin {PublicGoodIssuerOrg, GitHubIssuerOrg} =>
                      /\ OpsFor(k) = {"chooseVerifier"}
                      /\ failedAt = k
                      /\ res.Error = <<"failed to find recognized issuer from bundle content: ",
                                       UnrecognizedText>>

(* sigstore.dev, then GitHub, Inc., then Acme Corp. *)
C7_Witness ==
    /\ Returned
    /\ config.CustomTrustedRoot = ""
    /\ ~config.NoPublicGood
    /\ Len(attestations) = 3
    /\ IssuerOf(0) = PublicGoodIssuerOrg
    /\ IssuerOf(1) = GitHubIssuerOrg
    /\ IssuerOf(2) = OtherIssuerOrg
    /\ "newPublicGoodVerifier" \in OpsFor(0)
    /\ "newGitHubVerifier" \in OpsFor(1)
    /\ failedAt = 2
    /\ UnrecognizedText \in Tokens(res.Error)

(***************************************************************************)
(* C8: within one Verify call the verifier of a trust domain is            *)
(* constructed at most once, however many attestations select the domain.  *)
(***************************************************************************)
C8_ConstructedOnce ==
    \A op \in Constructors : TimesCalled(op) <= 1

(* The texts an attestation's index could take in a message: Go's index   *)
(* and the 1-based position the progress notices print.                   *)
IndexTokens(k) == {ToString(k), ToString(k + 1)}

(* The literal pieces of text that name a trust domain. *)
DomainTexts ==
    { "failed to create custom verifier: ",
      "failed to create Public Good Sigstore verifier: ",
      "failed to create GitHub Sigstore verifier: " }

(* The error names an issuer organization or a trust domain. *)
NamesIssuerOrDomain(e) ==
    \/ Tokens(e) \cap {PublicGoodIssuerOrg, GitHubIssuerOrg, OtherIssuerOrg} # {}
    \/ Tokens(e) \cap DomainTexts # {}

(***************************************************************************)
(* C9 as stated: every error Verify returns carries the failing            *)
(* attestation's index and the trust domain or issuer involved.            *)
(***************************************************************************)
C9_Original ==
    (Returned /\ res.Error # Nil) =>
        /\ Tokens(res.Error) \cap IndexTokens(failedAt) # {}
        /\ NamesIssuerOrDomain(res.Error)

(***************************************************************************)
(* C9 amended: no error Verify returns carries the attestation's index.    *)
(* The error of a failed cryptographic verification names the failing      *)
(* attestation's issuer; the error of a failed verifier construction names *)
(* the trust domain whose verifier could not be created; the errors of a   *)
(* malformed bundle, an ambiguous issuer and an unrecognized issuer name   *)
(* neither an issuer nor a trust domain.                                   *)
(***************************************************************************)
C9_Amended ==
    (Returned /\ res.Error # Nil) =>
        /\ failedAt # NoFail
        /\ \A k \in 0..(MaxLen + 1) : Tokens(res.Error) \cap IndexTokens(k) = {}
        /\ FailedOp = "Verify" =>
              /\ Resolved(failedAt)
              /\ res.Error[1] = "verifying with issuer \""
              /\ res.Error[2] = IssuerOf(failedAt)
        /\ FailedOp \in Constructors =>
              /\ res.Error[1] = "failed to find recognized issuer from bundle content: "
              /\ res.Error[2] \in DomainTexts
        /\ FailedOp = "chooseVerifier" =>
              /\ res.Error[1] = "failed to find recognized issuer from bundle content: "
              /\ ~NamesIssuerOrDomain(res.Error)

(* The second attestation, issued by GitHub, Inc., was rejected. *)
C9_Witness ==
    /\ Returned
    /\ failedAt = 1
    /\ FailedOp = "Verify"
    /\ IssuerOf(1) = GitHubIssuerOrg
    /\ GitHubIssuerOrg \in Tokens(res.Error)

(***************************************************************************)
(* C10: Verify calls the Signature Verification Capability in input order, *)
(* at most once per attestation: the verified indices are 0, 1, ..., k     *)
(* with none skipped, repeated or reordered, and in a run that returns no  *)
(* error every attestation of the batch has been verified exactly once.    *)
(***************************************************************************)
C10_InOrderOnce ==
    /\ \A j \in 1..Len(VerifyCalls) : VerifyCalls[j].idx = j - 1
    /\ (Returned /\ res.Error = Nil) => Len(VerifyCalls) = Len(attestations)

(* Three attestations verified, one call each. *)
C10_Witness ==
    /\ Returned
    /\ res.Error = Nil
    /\ Len(attestations) = 3
    /\ Len(VerifyCalls) = 3
    /\ VerifyCalls[3].idx = 2

(***************************************************************************)
(* C12: with NoPublicGood set and no custom trusted root, chooseVerifier   *)
(* never fails with the unrecognized-issuer error: for every               *)
(* single-organization issuer, one that is neither sigstore.dev nor        *)
(* GitHub, Inc. included, it constructs the GitHub verifier.               *)
(***************************************************************************)
C12_AssumeGitHub ==
    (config.CustomTrustedRoot = "" /\ config.NoPublicGood) =>
        /\ \A j \in ResolvedChoices : NextCallIs(j, "newGitHubVerifier")
        /\ UnrecognizedText \notin Tokens(res.Error)
        /\ pc = "verify" => verifier = "GitHub"

(* An Acme Corp bundle was verified with the GitHub verifier. *)
C12_Witness ==
    /\ Returned
    /\ config.CustomTrustedRoot = ""
    /\ config.NoPublicGood
    /\ Len(attestations) = 1
    /\ IssuerOf(0) = OtherIssuerOrg
    /\ OpsFor(0) = {"chooseVerifier", "newGitHubVerifier", "Verify"}
    /\ res.Error = Nil
    /\ res.VerifyResults[1].VerificationResult.verifiedBy = "GitHub"

(* The error chooseVerifier returns for a bundle whose issuer it cannot    *)
(* resolve, as Verify wraps it.                                            *)
UnresolvedErrorOf(b) ==
    <<"failed to find recognized issuer from bundle content: ">> \o
        (IF ~b.hasContent THEN <<"failed to get bundle verification content: ", "<bundle error>">>
         ELSE IF ~b.hasCert THEN <<"leaf cert not found">>
         ELSE <<"expected the leaf certificate issuer to only have one organization">>)

(***************************************************************************)
(* C13: under every configuration, a custom trusted root and NoPublicGood  *)
(* included, a bundle with no verification content, no leaf certificate,   *)
(* or an issuer declaring zero or several organizations makes              *)
(* chooseVerifier fail before it constructs any verifier, and the batch    *)
(* abort with that error: no constructor and no verification call is made  *)
(* for that attestation or any later one.                                  *)
(***************************************************************************)
C13_ResolutionGates ==
    \A j \in 1..Len(calls) :
        (calls[j].op = "chooseVerifier" /\ ~Resolved(calls[j].idx)) =>
            /\ j = Len(calls)
            /\ failedAt = calls[j].idx
            /\ Returned
            /\ res.VerifyResults = <<>>
            /\ res.Error = UnresolvedErrorOf(attestations[calls[j].idx + 1].Bundle)

(* A custom root, NoPublicGood set, and a second bundle with two issuer    *)
(* organizations.                                                          *)
C13_Witness ==
    /\ Returned
    /\ config.CustomTrustedRoot # ""
    /\ config.NoPublicGood
    /\ Len(attestations) = 3
    /\ Len(attestations[2].Bundle.orgs) = 2
    /\ failedAt = 1
    /\ OpsFor(1) = {"chooseVerifier"}
    /\ TimesCalled("newCustomVerifier") = 1

RunReturned == rpc = "returned"

(***************************************************************************)
(* C14: runVerify returns nil only if SigstoreVerifier.Verify was invoked  *)
(* on a non-empty attestation list and returned no error; in particular,   *)
(* when a predicate type filter removes every fetched attestation,         *)
(* runVerify returns a non-nil error.                                      *)
(***************************************************************************)
C14_SuccessMeansVerified ==
    (RunReturned /\ ret = Nil) =>
        /\ Len(verified) = 1
        /\ verified[1] # <<>>
        /\ pc = "done"
        /\ res.Error = Nil

SwitchReturned == spc = "returned"

(* The candidate set is exactly two accounts on the same host. *)
TwoOnOneHost ==
    /\ Len(candidates) = 2
    /\ candidates[1].host = candidates[2].host

(* More than two candidates, or two on different hosts. *)
Ambiguous ==
    \/ Len(candidates) > 2
    \/ (Len(candidates) = 2 /\ candidates[1].host # candidates[2].host)

(* The SwitchUser call for the candidate of the pair that is not active. *)
InactiveOfPair ==
    LET c == CHOOSE d \in {candidates[1], candidates[2]} : ~d.active
    IN  [host |-> c.host, user |-> c.user]

(* No host has changed its active account. *)
ActiveUnchanged == activeUser = [k \in 1..Len(authCfg) |-> authCfg[k].active]

(* With an ambiguous candidate set, SwitchUser is called only for the      *)
(* candidate an interactive prompt selected; when prompting is impossible  *)
(* switchRun returns an error and the active accounts are unchanged.       *)
AmbiguousNeedsPrompt ==
    Ambiguous =>
        /\ switched # <<>> =>
              /\ prompts = 1
              /\ swOpts.CanPrompt
              /\ Len(switched) = 1
              /\ \E k \in 1..Len(candidates) :
                    switched[1] = [host |-> candidates[k].host, user |-> candidates[k].user]
        /\ ~swOpts.CanPrompt =>
              /\ SwitchReturned
              /\ sret # Nil
              /\ prompts = 0
              /\ switched = <<>>
              /\ ActiveUnchanged

(***************************************************************************)
(* C11 as stated: with exactly two candidates on one host switchRun calls  *)
(* SwitchUser for that host with the account that is not active, without   *)
(* prompting; with an ambiguous candidate set no SwitchUser call happens   *)
(* without a prompt, and if prompting is impossible switchRun returns an   *)
(* error with the active account unchanged.                                *)
(***************************************************************************)
C11_Original ==
    /\ (SwitchReturned /\ TwoOnOneHost) =>
          /\ switched = <<InactiveOfPair>>
          /\ prompts = 0
    /\ AmbiguousNeedsPrompt

(***************************************************************************)
(* C11 amended: with exactly two candidates on one host switchRun never    *)
(* prompts and calls SwitchUser for that host with the account that is not *)
(* active, unless AuthTokenWriteable reports that the host's token comes   *)
(* from the environment: then it returns an error without calling          *)
(* SwitchUser and the active account is unchanged.  The rest as stated.    *)
(***************************************************************************)
C11_Amended ==
    /\ TwoOnOneHost =>
          /\ prompts = 0
          /\ switched \in {<<>>, <<InactiveOfPair>>}
          /\ SwitchReturned =>
                IF sret = SilentError
                  THEN switched = <<>> /\ ActiveUnchanged
                  ELSE switched = <<InactiveOfPair>>
    /\ AmbiguousNeedsPrompt

(* Two accounts on one host, the first active: switched to the second. *)
C11_Witness ==
    /\ SwitchReturned
    /\ TwoOnOneHost
    /\ candidates[1].active
    /\ prompts = 0
    /\ sret = Nil
    /\ switched = <<[host |-> candidates[1].host, user |-> candidates[2].user]>>
    /\ ~ActiveUnchanged

====
